---- MODULE Spec2Model ----
(***************************************************************************)
(* The ETL pipelines of the caregiver and carelog repositories:            *)
(* CaregiverRepository.runETLPipeline and CarelogsRepository.runETLPipeline *)
(* with the extract retry loop, the transform functions and the loaders.   *)
(*                                                                         *)
(* Representation.  A JavaScript string is a sequence of one-character     *)
(* strings.  A value that may be null/undefined is a sequence of length    *)
(* 0 (null) or 1 (the value).  A Date is the natural number of its time;   *)
(* a date string is the decimal numeral of that time, anything else is an  *)
(* invalid date.                                                           *)
(***************************************************************************)
EXTENDS Integers, Sequences, FiniteSets, TLC

\* ------------------------------------------------------------------ bounds
MaxRows == 3
MaxRetriesOpt == 1
MaxFaults == 1
MaxRuns == 2

\* ------------------------------------------------------- program constants
maxExtractAttempts == 3
MaxBatchSize == 1000

\* ----------------------------------------------------- nullable and strings
Null == <<>>
Some(v) == <<v>>
IsNull(x) == x = <<>>
Val(x) == x[1]

Digits == <<"0", "1", "2", "3", "4", "5", "6", "7", "8", "9">>
IsDigit(c) == \E k \in 1..Len(Digits) : Digits[k] = c
DigitVal(c) == (CHOOSE k \in 1..Len(Digits) : Digits[k] = c) - 1

RECURSIVE TrimLeft(_)
TrimLeft(s) == IF s # <<>> /\ Head(s) = " " THEN TrimLeft(Tail(s)) ELSE s

RECURSIVE TrimRight(_)
TrimRight(s) ==
  IF s # <<>> /\ s[Len(s)] = " " THEN TrimRight(SubSeq(s, 1, Len(s) - 1)) ELSE s

\* String.prototype.trim
Trim(s) == TrimRight(TrimLeft(s))

\* number of leading decimal digits of s
RECURSIVE LeadDigits(_)
LeadDigits(s) ==
  IF s # <<>> /\ IsDigit(Head(s)) THEN 1 + LeadDigits(Tail(s)) ELSE 0

RECURSIVE DigitsValue(_, _)
DigitsValue(s, n) ==
  IF n = 0 THEN 0 ELSE 10 * DigitsValue(s, n - 1) + DigitVal(s[n])

\* parseInt(s, 10): leading blanks skipped, optional sign, the longest digit
\* prefix; NaN (here Null) when there is no digit.
ParseIntJS(s) ==
  LET t == TrimLeft(s)
      signed == t # <<>> /\ Head(t) \in {"-", "+"}
      body == IF signed THEN Tail(t) ELSE t
      n == LeadDigits(body)
      v == DigitsValue(body, n)
  IN  IF n = 0 THEN Null
      ELSE Some(IF signed /\ Head(t) = "-" THEN 0 - v ELSE v)

\* new Date(s): a valid date exactly when s is a numeral; its time is the number
DateJS(s) ==
  IF s # <<>> /\ LeadDigits(s) = Len(s) THEN Some(DigitsValue(s, Len(s))) ELSE Null

\* JavaScript truthiness of a nullable string / nullable number / nullable Date
TruthyStr(x) == ~IsNull(x) /\ Val(x) # <<>>
TruthyNum(x) == ~IsNull(x) /\ Val(x) # 0
TruthyDate(x) == ~IsNull(x)

\* a || b on nullable strings
OrStr(a, b) == IF TruthyStr(a) THEN a ELSE b

\* ------------------------------------------- caregiver transform helpers
\* CaregiverRepository.cleanString: threw is TRUE for a required field that
\* is null, undefined or ''; otherwise value is the result.
cgCleanString(value, required) ==
  IF IsNull(value) \/ Val(value) = <<>>
  THEN [threw |-> required, value |-> Null]
  ELSE [threw |-> FALSE, value |-> Some(Trim(Val(value)))]

cgParseInteger(value) ==
  IF IsNull(value) \/ Val(value) = <<>> THEN Null ELSE ParseIntJS(Val(value))

Lower(c) == IF c = "A" THEN "a" ELSE IF c = "X" THEN "x" ELSE c
LowerCase(s) == [k \in 1..Len(s) |-> Lower(s[k])]

\* /^[^\s@]+@[^\s@]+\.[^\s@]+$/
EmailRegexTest(s) ==
  \E i \in 1..Len(s) : \E j \in 1..Len(s) :
    /\ 1 < i /\ i + 1 < j /\ j < Len(s)
    /\ s[i] = "@" /\ s[j] = "."
    /\ \A k \in 1..Len(s) : k # i => s[k] \notin {" ", "@"}

cleanEmail(email) ==
  IF ~TruthyStr(email) THEN Null
  ELSE LET cleaned == LowerCase(Trim(Val(email)))
       IN  IF EmailRegexTest(cleaned) THEN Some(cleaned) ELSE Null

\* validateRequiredFields: TRUE when no required field is missing
validateRequiredFields(record) ==
  TruthyStr(record.first_name) /\ TruthyStr(record.last_name)

\* the default system name 'legacy_csv'
LegacyCsv == <<"l", "e", "g", "a", "c", "y">>

\* One iteration of the map callback of transformCaregiverData: the
\* transformed record, or ok = FALSE when the callback throws.
TransformCaregiverRow(record, index) ==
  LET first == cgCleanString(record.first_name, TRUE)
      last == cgCleanString(record.last_name, TRUE)
      ext == cgCleanString(record.external_id, FALSE)
      sys == cgCleanString(record.system_name, FALSE)
  IN  IF first.threw \/ last.threw
      THEN [ok |-> FALSE, row |-> index + 1]
      ELSE LET t == [franchisor_id |-> cgParseInteger(record.franchisor_id),
                     agency_id |-> cgParseInteger(record.agency_id),
                     location_id |-> cgParseInteger(record.location_id),
                     first_name |-> first.value,
                     last_name |-> last.value,
                     email |-> cleanEmail(record.email),
                     external_system_id |-> ext.value,
                     system_name |-> OrStr(sys.value, Some(LegacyCsv)),
                     source_row |-> index + 1]
           IN  IF validateRequiredFields(t)
               THEN [ok |-> TRUE, data |-> t, row |-> index + 1]
               ELSE [ok |-> FALSE, row |-> index + 1]

CaregiverRowOk(rawData, k) == TransformCaregiverRow(rawData[k], k - 1).ok

\* transformCaregiverData: Array.map whose callback rethrows, so the first
\* failing row makes the whole call throw.
transformCaregiverData(rawData) ==
  IF \E k \in 1..Len(rawData) : ~CaregiverRowOk(rawData, k)
  THEN [threw |-> TRUE,
        row |-> CHOOSE k \in 1..Len(rawData) :
                  /\ ~CaregiverRowOk(rawData, k)
                  /\ \A m \in 1..(k - 1) : CaregiverRowOk(rawData, m),
        data |-> <<>>]
  ELSE [threw |-> FALSE, row |-> 0,
        data |-> [k \in 1..Len(rawData) |->
                    TransformCaregiverRow(rawData[k], k - 1).data]]

\* --------------------------------------------- carelog transform helpers
clCleanString(value) ==
  IF IsNull(value) THEN Null
  ELSE IF Trim(Val(value)) = <<>> THEN Null ELSE Some(Trim(Val(value)))

clParseInteger(value) ==
  IF IsNull(value) \/ Val(value) = <<>> THEN Null ELSE ParseIntJS(Trim(Val(value)))

clParseDate(value) ==
  IF ~TruthyStr(value) \/ Trim(Val(value)) = <<>> THEN Null
  ELSE DateJS(Trim(Val(value)))

\* a || 0 on a nullable number
OrZero(x) == IF TruthyNum(x) THEN Val(x) ELSE 0

\* a validation without the rule on the actual clock times
validateCarelogRecordNoClockRule(carelog) ==
  (IF ~TruthyNum(carelog.caregiver_id) THEN <<"caregiver_id is required">> ELSE <<>>)
  \o (IF ~TruthyDate(carelog.start_datetime)
      THEN <<"start_datetime is required">> ELSE <<>>)
  \o (IF ~TruthyDate(carelog.end_datetime)
      THEN <<"end_datetime is required">> ELSE <<>>)
  \o (IF /\ TruthyDate(carelog.start_datetime) /\ TruthyDate(carelog.end_datetime)
         /\ Val(carelog.start_datetime) >= Val(carelog.end_datetime)
      THEN <<"start_datetime must be before end_datetime">> ELSE <<>>)
  \o (IF /\ carelog.general_comment_char_count # 0
         /\ carelog.general_comment_char_count < 0
      THEN <<"general_comment_char_count cannot be negative">> ELSE <<>>)

\* validateCarelogRecord: the list of error messages
validateCarelogRecord(carelog) ==
  (IF ~TruthyNum(carelog.caregiver_id) THEN <<"caregiver_id is required">> ELSE <<>>)
  \o (IF ~TruthyDate(carelog.start_datetime)
      THEN <<"start_datetime is required">> ELSE <<>>)
  \o (IF ~TruthyDate(carelog.end_datetime)
      THEN <<"end_datetime is required">> ELSE <<>>)
  \o (IF /\ TruthyDate(carelog.start_datetime) /\ TruthyDate(carelog.end_datetime)
         /\ Val(carelog.start_datetime) >= Val(carelog.end_datetime)
      THEN <<"start_datetime must be before end_datetime">> ELSE <<>>)
  \o (IF /\ TruthyDate(carelog.clock_in_actual_datetime)
         /\ TruthyDate(carelog.clock_out_actual_datetime)
         /\ Val(carelog.clock_in_actual_datetime)
              >= Val(carelog.clock_out_actual_datetime)
      THEN <<"clock_in_actual_datetime must be before clock_out_actual_datetime">>
      ELSE <<>>)
  \o (IF /\ carelog.general_comment_char_count # 0
         /\ carelog.general_comment_char_count < 0
      THEN <<"general_comment_char_count cannot be negative">> ELSE <<>>)

\* The body of the for loop of transformCarelogData for rawData[i] (i 0-based)
TransformCarelogRow(row, i) ==
  LET rowIndex == IF row._rowIndex # 0 THEN row._rowIndex ELSE i + 1
  IN  IF \/ ~TruthyStr(row.caregiver_id) \/ ~TruthyStr(row.start_datetime)
         \/ ~TruthyStr(row.end_datetime)
      THEN [success |-> FALSE, data |-> Null, rowIndex |-> rowIndex]
      ELSE LET t == [franchisor_id |-> clParseInteger(row.franchisor_id),
                     agency_id |-> clParseInteger(row.agency_id),
                     external_id |-> clCleanString(row.external_id),
                     caregiver_id |-> clParseInteger(row.caregiver_id),
                     parent_id |-> clParseInteger(row.parent_id),
                     start_datetime |-> clParseDate(row.start_datetime),
                     end_datetime |-> clParseDate(row.end_datetime),
                     clock_in_actual_datetime |->
                       clParseDate(row.clock_in_actual_datetime),
                     clock_out_actual_datetime |->
                       clParseDate(row.clock_out_actual_datetime),
                     general_comment_char_count |->
                       OrZero(clParseInteger(row.general_comment_char_count))]
           IN  IF validateCarelogRecord(t) = <<>>
               THEN [success |-> TRUE, data |-> Some(t), rowIndex |-> rowIndex]
               ELSE [success |-> FALSE, data |-> Null, rowIndex |-> rowIndex]

\* a transform that pushes its outcomes in reverse
transformCarelogDataReversed(rawData) ==
  [k \in 1..Len(rawData) |->
     TransformCarelogRow(rawData[Len(rawData) + 1 - k], Len(rawData) - k)]

\* transformCarelogData: one outcome pushed per loop iteration
transformCarelogData(rawData) ==
  [k \in 1..Len(rawData) |-> TransformCarelogRow(rawData[k], k - 1)]

\* ------------------------------------------------------ destination store
\* The PostgreSQL tables the loaders read and write (client 'pg'); a row
\* keeps the columns the loaders' checks and the constraints read.
InitTables ==
  [franchisors |-> {1}, agencies |-> {1}, locations |-> {1}, parent |-> {1, 2},
   profile |-> {[id |-> 1, email |-> Null]},
   external |-> {},
   caregivers |-> {[id |-> 1, profile_id |-> Some(1), external_id |-> Null]},
   carelogs |-> {}]

Ids(rows) == {r.id : r \in rows}

\* a SERIAL primary key
NextId(rows) == Cardinality(rows) + 1

\* a failed statement that leaves the transaction usable
InsErrLeavesTransactionUsable(t, msg, ab) ==
  [tables |-> t, error |-> msg, aborted |-> FALSE]

\* The outcome of one insertSingle* call on the transaction's tables: the
\* tables after it, the message of the error it threw ("none" when it
\* resolved) and whether a statement failed in the database, which leaves a
\* PostgreSQL transaction aborted.
InsOk(t) == [tables |-> t, error |-> "none", aborted |-> FALSE]
InsErr(t, msg, ab) == [tables |-> t, error |-> msg, aborted |-> ab]

\* The external rows with this external_id and system_name
ExistingExternal(t, record) ==
  {e \in t.external :
     /\ e.external_id = Val(record.external_system_id)
     /\ e.system_name = Val(OrStr(record.system_name, Some(LegacyCsv)))}

\* insertSingleCaregiver(record, trx).  `aborted`: a statement of this
\* transaction failed before; `fault`: the statement of this call that the
\* database fails ("none", "profile", "external", "caregivers").
insertSingleCaregiver(record, t, aborted, fault) ==
  IF ~TruthyStr(record.first_name) \/ ~TruthyStr(record.last_name)
  THEN InsErr(t, "Missing required fields", aborted)
  ELSE IF aborted
  THEN InsErr(t, "current transaction is aborted", TRUE)
  ELSE IF TruthyNum(record.franchisor_id)
          /\ Val(record.franchisor_id) \notin t.franchisors
  THEN InsErr(t, "Franchisor does not exist", FALSE)
  ELSE IF TruthyNum(record.agency_id) /\ Val(record.agency_id) \notin t.agencies
  THEN InsErr(t, "Agency does not exist", FALSE)
  ELSE IF TruthyNum(record.location_id)
          /\ Val(record.location_id) \notin t.locations
  THEN InsErr(t, "Location does not exist", FALSE)
  ELSE IF TruthyStr(record.email)
          /\ \E p \in t.profile : p.email = record.email
  THEN InsErr(t, "Email already exists in the system", FALSE)
  ELSE IF fault = "profile"
  THEN InsErr(t, "Failed to insert profile", TRUE)
  ELSE
    LET profileId == NextId(t.profile)
        t1 == [t EXCEPT !.profile =
                 @ \cup {[id |-> profileId, email |-> record.email]}]
        hasExt == TruthyStr(record.external_system_id)
                  /\ Trim(Val(record.external_system_id)) # <<>>
        reuse == hasExt /\ ExistingExternal(t1, record) # {}
        \* external.external_id is UNIQUE
        extFails == hasExt /\ ~reuse
                    /\ (\/ fault = "external"
                        \/ \E e \in t1.external :
                             e.external_id = Val(record.external_system_id))
        newExtId == NextId(t1.external)
        externalId ==
          IF ~hasExt THEN Null
          ELSE IF reuse
               THEN Some((CHOOSE e \in ExistingExternal(t1, record) : TRUE).id)
               ELSE Some(newExtId)
        t2 == IF hasExt /\ ~reuse
              THEN [t1 EXCEPT !.external =
                      @ \cup {[id |-> newExtId,
                               external_id |-> Val(record.external_system_id),
                               system_name |->
                                 Val(OrStr(record.system_name, Some(LegacyCsv)))]}]
              ELSE t1
        t3 == [t2 EXCEPT !.caregivers =
                 @ \cup {[id |-> NextId(t2.caregivers),
                          profile_id |-> Some(profileId),
                          external_id |-> externalId]}]
    IN  IF extFails THEN InsErr(t1, "Failed to insert external record", TRUE)
        ELSE IF fault = "caregivers"
        THEN InsErr(t2, "Failed to insert caregiver", TRUE)
        ELSE InsOk(t3)

\* The constraints of CREATE TABLE carelogs that the insert can violate
CarelogFkViolation(data, t) ==
  \/ ~IsNull(data.franchisor_id) /\ Val(data.franchisor_id) \notin t.franchisors
  \/ ~IsNull(data.agency_id) /\ Val(data.agency_id) \notin t.agencies
  \/ ~IsNull(data.parent_id) /\ Val(data.parent_id) \notin t.parent
  \/ Val(data.caregiver_id) \notin Ids(t.caregivers)

CarelogCheckViolation(data) ==
  \/ Val(data.end_datetime) <= Val(data.start_datetime)
  \/ /\ ~IsNull(data.clock_in_actual_datetime)
     /\ ~IsNull(data.clock_out_actual_datetime)
     /\ Val(data.clock_out_actual_datetime) <= Val(data.clock_in_actual_datetime)

\* carelogs.external_id is UNIQUE
CarelogUniqueViolation(data, t) ==
  ~IsNull(data.external_id)
  /\ \E c \in t.carelogs : c.external_id = data.external_id

\* a lookup that never finds a stored carelog
ExistingCarelogNone(data, t) == {}

\* trx('carelogs').where('external_id', carelogData.external_id).first()
ExistingCarelog(data, t) == {c \in t.carelogs : c.external_id = data.external_id}

\* insertSingleCarelog(carelogData, trx); fault "insert": the database fails
\* the INSERT statement.
insertSingleCarelog(data, t, aborted, fault) ==
  IF ~TruthyNum(data.caregiver_id)
  THEN InsErr(t, "Missing required field: caregiver_id", aborted)
  ELSE IF ~TruthyDate(data.start_datetime)
  THEN InsErr(t, "Missing required field: start_datetime", aborted)
  ELSE IF ~TruthyDate(data.end_datetime)
  THEN InsErr(t, "Missing required field: end_datetime", aborted)
  ELSE IF aborted
  THEN InsErr(t, "current transaction is aborted", TRUE)
  ELSE IF Val(data.caregiver_id) \notin Ids(t.caregivers)
  THEN InsErr(t, "Caregiver does not exist", FALSE)
  ELSE IF TruthyNum(data.parent_id) /\ Val(data.parent_id) \notin Ids(t.profile)
  THEN InsErr(t, "Parent does not exist", FALSE)
  ELSE IF TruthyStr(data.external_id) /\ ExistingCarelog(data, t) # {}
  THEN InsErr(t, "Carelog with external_id already exists", FALSE)
  ELSE IF CarelogUniqueViolation(data, t)
  THEN InsErr(t, "Duplicate carelog record", TRUE)
  ELSE IF CarelogFkViolation(data, t)
  THEN InsErr(t, "Invalid foreign key reference", TRUE)
  ELSE IF fault = "insert" \/ CarelogCheckViolation(data)
  THEN InsErr(t, "Database insertion failed", TRUE)
  ELSE InsOk([t EXCEPT !.carelogs =
                @ \cup {[id |-> NextId(t.carelogs),
                         external_id |-> data.external_id,
                         caregiver_id |-> Val(data.caregiver_id),
                         franchisor_id |-> data.franchisor_id,
                         agency_id |-> data.agency_id,
                         parent_id |-> data.parent_id]}])

\* ------------------------------------------------------------------ inputs
Str1 == <<"1">>
Str2 == <<"2">>
Str9 == <<"9">>

CgRow(first, last, franchisor) ==
  [first_name |-> first, last_name |-> last, franchisor_id |-> franchisor,
   agency_id |-> Null, location_id |-> Null, email |-> Null,
   external_id |-> Null, system_name |-> Null]

\* raw caregiver rows: a valid one, one without first_name, one whose
\* last_name is blank, one whose franchisor does not exist
CaregiverRows ==
  {CgRow(Some(<<"A">>), Some(<<"L">>), Some(Str1)),
   CgRow(Some(<<>>), Some(<<"L">>), Some(Str1)),
   CgRow(Some(<<"A">>), Some(<<" ">>), Null),
   CgRow(Some(<<"A">>), Some(<<"L">>), Some(Str9))}

\* more raw caregiver rows: one that carries an external_id, one with the
\* same external_id under another system name, one with an email
KeyedCaregiverRows ==
  {[CgRow(Some(<<"A">>), Some(<<"L">>), Some(Str1)) EXCEPT
      !.external_id = Some(Str1)],
   [CgRow(Some(<<"A">>), Some(<<"L">>), Some(Str1)) EXCEPT
      !.external_id = Some(Str1), !.system_name = Some(<<"x">>)],
   [CgRow(Some(<<"A">>), Some(<<"L">>), Some(Str1)) EXCEPT
      !.email = Some(<<"a", "@", "x", ".", "c">>)]}

ClRow(caregiver, start, end) ==
  [caregiver_id |-> caregiver, start_datetime |-> start, end_datetime |-> end,
   franchisor_id |-> Null, agency_id |-> Null, parent_id |-> Null,
   external_id |-> Null, clock_in_actual_datetime |-> Null,
   clock_out_actual_datetime |-> Null, general_comment_char_count |-> Null]

\* raw carelog rows: a valid one, one without caregiver_id, one whose end is
\* before its start, one whose caregiver does not exist
CarelogRows ==
  {ClRow(Some(Str1), Some(Str1), Some(Str2)),
   ClRow(Some(<<>>), Some(Str1), Some(Str2)),
   ClRow(Some(Str1), Some(Str2), Some(Str1)),
   ClRow(Some(Str9), Some(Str1), Some(Str2))}

\* more raw carelog rows: one that carries an external_id, one whose
\* parent_id is a row of parent but not of profile, one whose franchisor
\* does not exist
KeyedCarelogRows ==
  {[ClRow(Some(Str1), Some(Str1), Some(Str2)) EXCEPT !.external_id = Some(Str1)],
   [ClRow(Some(Str1), Some(Str1), Some(Str2)) EXCEPT !.parent_id = Some(Str2)],
   [ClRow(Some(Str1), Some(Str1), Some(Str2)) EXCEPT !.franchisor_id = Some(Str9)]}

\* raw carelog rows around the business rules: actual clock times in order,
\* reversed and equal; start equal to end; a negative and a positive comment
\* count; a start that is no date; a caregiver_id of 0 and a blank one
RuleCarelogRows ==
  {[ClRow(Some(Str1), Some(Str1), Some(Str2)) EXCEPT
      !.clock_in_actual_datetime = Some(Str1),
      !.clock_out_actual_datetime = Some(Str2)],
   [ClRow(Some(Str1), Some(Str1), Some(Str2)) EXCEPT
      !.clock_in_actual_datetime = Some(Str2),
      !.clock_out_actual_datetime = Some(Str1)],
   [ClRow(Some(Str1), Some(Str1), Some(Str2)) EXCEPT
      !.clock_in_actual_datetime = Some(Str1),
      !.clock_out_actual_datetime = Some(Str1)],
   ClRow(Some(Str1), Some(Str2), Some(Str2)),
   [ClRow(Some(Str1), Some(Str1), Some(Str2)) EXCEPT
      !.general_comment_char_count = Some(<<"-", "3">>)],
   [ClRow(Some(Str1), Some(Str1), Some(Str2)) EXCEPT
      !.general_comment_char_count = Some(Str2)],
   ClRow(Some(Str1), Some(<<"x">>), Some(Str2)),
   ClRow(Some(<<"0">>), Some(Str1), Some(Str2)),
   ClRow(Some(<<" ">>), Some(Str1), Some(Str2))}

RowSeqs(rows) == UNION {[1..n -> rows] : n \in 0..MaxRows}

\* source descriptors: the type and whether its required field is given
Sources ==
  {[type |-> "csv", given |-> TRUE], [type |-> "csv", given |-> FALSE],
   [type |-> "ftp", given |-> TRUE]}

BatchSizes == {0, 1, 2, MaxBatchSize + 1}
RetryOptions == {-2} \cup (0..MaxRetriesOpt)

Options ==
  [batchSize : BatchSizes, validateOnly : BOOLEAN, continueOnError : BOOLEAN,
   maxRetries : RetryOptions]

\* The switch of the extract phase throws before any I/O for a missing
\* path/url/query and for an unsupported type
SourceConfigOk(src) == src.type \in {"csv", "api", "database"} /\ src.given

\* ------------------------------------------------------------------- state
VARIABLES pipeline, source, options, sourceRows, env, db, trx, pc, retryCount,
          rawData, extractedCount, transformedData, transformedCount,
          pipelineErrors, load, result, hist

vars == <<pipeline, source, options, sourceRows, env, db, trx, pc, retryCount,
          rawData, extractedCount, transformedData, transformedCount,
          pipelineErrors, load, result, hist>>

\* env is what the surroundings of a run can do to it: `flaky`, an extractor
\* whose source is well configured can still fail; `faults`, the number of
\* inserts the database or the clock can fail
inputs == <<pipeline, source, options, sourceRows, env>>

NoTrx == [state |-> "none", tables |-> InitTables, aborted |-> FALSE]
\* the categories of categorizeError; errorsByType starts without entries
ErrorTypes ==
  {"Foreign Key Error", "Duplicate Error", "Validation Error", "Timeout Error",
   "Database Error", "Unknown Error"}

\* the locals of a load; `pending`: the positions of the records whose insert
\* lost the race against its timeout and is still running
IdleLoad ==
  [state |-> "idle", i |-> 0, j |-> 0, successCount |-> 0, errors |-> <<>>,
   errorsByType |-> [c \in ErrorTypes |-> 0], pending |-> <<>>,
   batches |-> <<>>, faults |-> 0]

\* what is remembered of a run: the attempts made, the phases entered, the
\* tables when it started (db0), its ordinal (run) and the LoadResult counts
\* of the run before it (prev)
NewHist(run, tables, prev) ==
  [attempts |-> 0, extracted |-> FALSE, exhausted |-> FALSE,
   transformRan |-> FALSE, loadCalled |-> FALSE, trxOpened |-> 0,
   loadFatal |-> FALSE, breaker |-> FALSE,
   run |-> run, db0 |-> tables, prev |-> prev]

\* the locals of runETLPipeline at its entry, and the tables
Entry ==
  /\ db = InitTables
  /\ trx = NoTrx
  /\ pc = "Extracting"
  /\ retryCount = 0
  /\ rawData = IF pipeline = "caregiver" THEN Null ELSE Some(<<>>)
  /\ extractedCount = 0
  /\ transformedData = <<>>
  /\ transformedCount = 0
  /\ pipelineErrors = <<>>
  /\ load = IdleLoad
  /\ result = Null
  /\ hist = NewHist(1, InitTables, Null)

Init ==
  /\ pipeline \in {"caregiver", "carelog"}
  /\ source \in Sources
  /\ options \in Options
  /\ pipeline = "carelog" => options.continueOnError
  /\ sourceRows \in RowSeqs(IF pipeline = "caregiver" THEN CaregiverRows
                                                       ELSE CarelogRows)
  /\ env = [flaky |-> TRUE, faults |-> MaxFaults]
  /\ Entry

PhaseError(phase, msg) == [phase |-> phase, error |-> msg, row |-> 0]

\* ------------------------------------- CaregiverRepository.runETLPipeline
\* a return after which the run goes on into the load phase
CaregiverReturnKeepsRunning(success, extracted, transformed, loadResult, errors) ==
  /\ result' = Some([success |-> success, extractedCount |-> extracted,
                     transformedCount |-> transformed,
                     loadResult |-> loadResult, errors |-> errors])
  /\ pipelineErrors' = errors
  /\ pc' = "Loading"

\* the return statements of the try block
CaregiverReturn(success, extracted, transformed, loadResult, errors) ==
  /\ result' = Some([success |-> success, extractedCount |-> extracted,
                     transformedCount |-> transformed,
                     loadResult |-> loadResult, errors |-> errors])
  /\ pipelineErrors' = errors
  /\ pc' = "Completed"

\* the outer catch block with the `success: true` of the early returns
CaregiverCatchReportsSuccess(msg, extracted, transformed, errors) ==
  /\ result' = Some([success |-> TRUE, extractedCount |-> extracted,
                     transformedCount |-> transformed, loadResult |-> Null,
                     errors |-> Append(errors, PhaseError("pipeline", msg))])
  /\ pipelineErrors' = Append(errors, PhaseError("pipeline", msg))
  /\ pc' = "Failed"

\* the outer catch block
CaregiverCatch(msg, extracted, transformed, errors) ==
  /\ result' = Some([success |-> FALSE, extractedCount |-> extracted,
                     transformedCount |-> transformed, loadResult |-> Null,
                     errors |-> Append(errors, PhaseError("pipeline", msg))])
  /\ pipelineErrors' = Append(errors, PhaseError("pipeline", msg))
  /\ pc' = "Failed"

\* the success flag of the final return
CaregiverSuccess(errors) ==
  \A k \in 1..Len(errors) : errors[k].phase \notin {"extract", "transform"}

\* One pass of the extract retry loop (or its exit when its condition fails)
CaregiverExtract ==
  /\ pipeline = "caregiver" /\ pc = "Extracting"
  /\ UNCHANGED <<inputs, db, trx, transformedData, transformedCount, load>>
  /\ IF ~(retryCount <= options.maxRetries)
     THEN \* the loop body never ran: rawData!.length throws a TypeError
          /\ CaregiverCatch("Cannot read properties of undefined", 0, 0,
                            pipelineErrors)
          /\ UNCHANGED <<retryCount, rawData, extractedCount, hist>>
     ELSE \E ok \in BOOLEAN :
          /\ ok => SourceConfigOk(source)
          /\ ~ok => (~SourceConfigOk(source) \/ env.flaky)
          /\ IF ok
             THEN /\ rawData' = Some(sourceRows)
                  /\ extractedCount' = Len(sourceRows)
                  /\ retryCount' = retryCount
                  /\ hist' = [hist EXCEPT !.attempts = @ + 1, !.extracted = TRUE]
                  /\ IF Len(sourceRows) = 0
                     THEN CaregiverReturn(TRUE, 0, 0, Null, pipelineErrors)
                     ELSE /\ pc' = "Transforming"
                          /\ UNCHANGED <<result, pipelineErrors>>
             ELSE LET errs == Append(pipelineErrors,
                                     PhaseError("extract", "Extract attempt failed"))
                  IN  /\ retryCount' = retryCount + 1
                      /\ UNCHANGED <<rawData, extractedCount>>
                      /\ IF retryCount + 1 > options.maxRetries
                         THEN /\ CaregiverCatch("Extract failed after retries",
                                                0, 0, errs)
                              /\ hist' = [hist EXCEPT !.attempts = @ + 1,
                                                      !.exhausted = TRUE]
                         ELSE /\ pipelineErrors' = errs
                              /\ hist' = [hist EXCEPT !.attempts = @ + 1]
                              /\ UNCHANGED <<pc, result>>

\* The transform phase, the validateOnly return and the skipped load
CaregiverTransform ==
  /\ pipeline = "caregiver" /\ pc = "Transforming"
  /\ UNCHANGED <<inputs, db, trx, retryCount, rawData, extractedCount, load>>
  /\ hist' = [hist EXCEPT !.transformRan = TRUE]
  /\ LET r == transformCaregiverData(Val(rawData))
         errs == IF r.threw
                 THEN Append(pipelineErrors,
                             PhaseError("transform", "Transformation failed"))
                 ELSE pipelineErrors
         count == IF r.threw THEN 0 ELSE Len(r.data)
     IN  IF r.threw /\ ~options.continueOnError
         THEN /\ CaregiverCatch("Transform phase failed", extractedCount, 0, errs)
              /\ UNCHANGED <<transformedData, transformedCount>>
         ELSE /\ transformedData' = r.data
              /\ transformedCount' = count
              /\ IF options.validateOnly
                 THEN CaregiverReturn(TRUE, extractedCount, count, Null, errs)
                 ELSE IF count > 0
                 THEN /\ pc' = "Loading"
                      /\ pipelineErrors' = errs
                      /\ UNCHANGED result
                 ELSE CaregiverReturn(CaregiverSuccess(errs), extractedCount,
                                      count, Null, errs)

\* loadCaregiverData threw: the catch of the load phase, then the final
\* return or (continueOnError false) the outer catch
CaregiverLoadThrew(msg) ==
  LET errs == Append(pipelineErrors, PhaseError("load", msg))
  IN  IF ~options.continueOnError
      THEN CaregiverCatch("Load phase failed", extractedCount,
                          transformedCount, errs)
      ELSE CaregiverReturn(CaregiverSuccess(errs), extractedCount,
                           transformedCount, Null, errs)

\* loadCaregiverData up to the opening of the transaction
CaregiverLoadBegin ==
  /\ pipeline = "caregiver" /\ pc = "Loading" /\ load.state = "idle"
  /\ UNCHANGED <<inputs, db, retryCount, rawData, extractedCount,
                 transformedData, transformedCount>>
  /\ IF Len(transformedData) = 0
     THEN /\ CaregiverReturn(CaregiverSuccess(pipelineErrors), extractedCount,
                             transformedCount,
                             Some([totalProcessed |-> 0, successCount |-> 0,
                                   errorCount |-> 0, errors |-> <<>>]),
                             pipelineErrors)
          /\ hist' = [hist EXCEPT !.loadCalled = TRUE]
          /\ UNCHANGED <<trx, load>>
     ELSE IF options.batchSize <= 0 \/ options.batchSize > MaxBatchSize
     THEN /\ CaregiverLoadThrew("Batch size must be between 1 and 1000")
          /\ hist' = [hist EXCEPT !.loadCalled = TRUE, !.loadFatal = TRUE]
          /\ UNCHANGED <<trx, load>>
     ELSE \E up \in BOOLEAN :
          IF up
          THEN /\ trx' = [state |-> "open", tables |-> db, aborted |-> FALSE]
               /\ load' = [load EXCEPT !.state = "running"]
               /\ hist' = [hist EXCEPT !.loadCalled = TRUE, !.trxOpened = @ + 1]
               /\ UNCHANGED <<pc, result, pipelineErrors>>
          ELSE \* knex.transaction rejects: no transaction is available
               /\ CaregiverLoadThrew("ETL load failed")
               /\ hist' = [hist EXCEPT !.loadCalled = TRUE, !.loadFatal = TRUE]
               /\ UNCHANGED <<trx, load>>

\* what the database or the clock does to one insert
CaregiverFaults == {"timeout", "profile", "external", "caregivers"}
FaultChoices(all) == IF load.faults < env.faults THEN {"none"} \cup all ELSE {"none"}

\* the batches sliced so far, each the positions of its records: record j
\* of a batch opens a new batch when j = 0 and joins the last one otherwise
InBatch(batches, j, pos) ==
  IF j = 0 THEN Append(batches, <<pos>>)
  ELSE [batches EXCEPT ![Len(batches)] = Append(@, pos)]

\* a batch loop that leaves a batch after its first record
AdvanceLeavesBatch(l, n, batchSize) == [l EXCEPT !.i = @ + batchSize, !.j = 0]

\* the position after the record at i + j: the next record of the batch, or
\* the first of the next batch
Advance(l, n, batchSize) ==
  IF l.j + 1 < batchSize /\ l.i + l.j + 1 < n
  THEN [l EXCEPT !.j = @ + 1]
  ELSE [l EXCEPT !.i = @ + batchSize, !.j = 0]

\* One iteration of the record loop of loadCaregiverData
CaregiverLoadRecord ==
  /\ pipeline = "caregiver" /\ pc = "Loading" /\ load.state = "running"
  /\ load.i < Len(transformedData)
  /\ UNCHANGED <<inputs, db, retryCount, rawData, extractedCount,
                 transformedData, transformedCount>>
  /\ \E fault \in FaultChoices(CaregiverFaults) :
     LET record == transformedData[load.i + load.j + 1]
         ins == insertSingleCaregiver(record, trx.tables, trx.aborted, fault)
         pos == load.i + load.j + 1
         timedOut == fault = "timeout"
         error == IF timedOut THEN "Insert operation timed out" ELSE ins.error
         \* Promise.race leaves the insert that timed out running
         tables == IF timedOut THEN trx.tables ELSE ins.tables
         aborted == IF timedOut THEN trx.aborted ELSE ins.aborted
         errs == IF error = "none" THEN load.errors
                 ELSE Append(load.errors,
                             [row |-> record.source_row, error |-> error])
         l == [load EXCEPT !.errors = errs,
                           !.successCount = IF error = "none" THEN @ + 1 ELSE @,
                           !.pending = IF timedOut THEN Append(@, pos) ELSE @,
                           !.batches = InBatch(@, load.j, pos),
                           !.faults = IF fault = "none" THEN @ ELSE @ + 1]
     IN  IF error # "none" /\ 2 * Len(errs) > Len(transformedData)
         THEN \* Too many errors: the transaction callback rejects, rollback
              /\ trx' = [state |-> "rolledback", tables |-> db, aborted |-> FALSE]
              /\ load' = [l EXCEPT !.state = "threw"]
              /\ hist' = [hist EXCEPT !.loadFatal = TRUE, !.breaker = TRUE]
              /\ CaregiverLoadThrew("ETL load failed: Too many errors")
         ELSE /\ trx' = [trx EXCEPT !.tables = tables, !.aborted = aborted]
              /\ load' = Advance(l, Len(transformedData), options.batchSize)
              /\ UNCHANGED <<pc, result, pipelineErrors, hist>>

\* s without its k-th element
RemoveAt(s, k) == SubSeq(s, 1, k - 1) \o SubSeq(s, k + 1, Len(s))

\* An insert that timed out runs to its end while the load goes on: its
\* statements reach the transaction, its outcome reaches nobody
CaregiverPendingInsert ==
  /\ pipeline = "caregiver" /\ pc = "Loading" /\ load.state = "running"
  /\ \E k \in 1..Len(load.pending) :
     LET ins == insertSingleCaregiver(transformedData[load.pending[k]],
                                      trx.tables, trx.aborted, "none")
     IN  /\ trx' = [trx EXCEPT !.tables = ins.tables, !.aborted = ins.aborted]
         /\ load' = [load EXCEPT !.pending = RemoveAt(@, k)]
  /\ UNCHANGED <<inputs, db, pc, retryCount, rawData, extractedCount,
                 transformedData, transformedCount, pipelineErrors, result, hist>>

\* The tables at COMMIT: each insert that is still pending (from the k-th
\* on) has by then written nothing, or its rows before the caregivers row
RECURSIVE TablesAtCommit(_, _)
TablesAtCommit(k, t) ==
  IF k > Len(load.pending) THEN {t}
  ELSE LET part == insertSingleCaregiver(transformedData[load.pending[k]],
                                         t, FALSE, "caregivers")
       IN  TablesAtCommit(k + 1, t)
           \cup (IF part.error = "Failed to insert caregiver"
                 THEN TablesAtCommit(k + 1, part.tables) ELSE {})

\* The end of the batch loop: commit, the LoadResult and the final return
CaregiverLoadFinish ==
  /\ pipeline = "caregiver" /\ pc = "Loading" /\ load.state = "running"
  /\ ~(load.i < Len(transformedData))
  /\ UNCHANGED <<inputs, retryCount, rawData, extractedCount, transformedData,
                 transformedCount, hist>>
  \* COMMIT of an aborted PostgreSQL transaction rolls it back
  /\ \E t \in TablesAtCommit(1, trx.tables) :
     /\ db' = IF trx.aborted THEN db ELSE t
     /\ trx' = [trx EXCEPT !.tables = IF trx.aborted THEN @ ELSE t,
                           !.state = IF trx.aborted THEN "rolledback"
                                     ELSE "committed"]
  /\ load' = [load EXCEPT !.state = "returned"]
  /\ CaregiverReturn(CaregiverSuccess(pipelineErrors), extractedCount,
                     transformedCount,
                     Some([totalProcessed |-> Len(transformedData),
                           successCount |-> load.successCount,
                           errorCount |-> Len(load.errors),
                           errors |-> load.errors]),
                     pipelineErrors)

\* -------------------------------------- CarelogsRepository.runETLPipeline
\* The strings of the carelog error list carry no tag; `phase` records the
\* statement that pushed the entry: "transform" ('Row n: ...'), "load"
\* ('Load error row n: ...') and "pipeline" (the message of the caught error).

\* extractFromCSV / extractFromAPI / extractFromDatabase attach the ordinal
WithRowIndex(rows) ==
  [k \in 1..Len(rows) |->
     [caregiver_id |-> rows[k].caregiver_id,
      start_datetime |-> rows[k].start_datetime,
      end_datetime |-> rows[k].end_datetime,
      franchisor_id |-> rows[k].franchisor_id,
      agency_id |-> rows[k].agency_id,
      parent_id |-> rows[k].parent_id,
      external_id |-> rows[k].external_id,
      clock_in_actual_datetime |-> rows[k].clock_in_actual_datetime,
      clock_out_actual_datetime |-> rows[k].clock_out_actual_datetime,
      general_comment_char_count |-> rows[k].general_comment_char_count,
      _rowIndex |-> k]]

SuccessCountOf(outcomes) ==
  Cardinality({k \in 1..Len(outcomes) : outcomes[k].success})

\* the catch block of runETLPipeline
CarelogCatch(msg, errors) ==
  /\ result' = Some([success |-> FALSE,
                     extractedCount |-> Len(Val(rawData)),
                     transformedCount |-> SuccessCountOf(transformedData),
                     loadedCount |-> 0,
                     errorCount |-> Len(errors) + 1,
                     errors |-> Append(errors, PhaseError("pipeline", msg)),
                     loadResults |-> Null])
  /\ pipelineErrors' = Append(errors, PhaseError("pipeline", msg))
  /\ pc' = "Failed"

\* the result of the try block
CarelogReturn(raw, outcomes, loadResults, errors) ==
  /\ result' =
       Some([success |->
               \/ Len(errors) = 0
               \/ IF ~IsNull(loadResults) THEN Val(loadResults).successCount > 0
                  ELSE \E k \in 1..Len(outcomes) : outcomes[k].success,
             extractedCount |-> Len(raw),
             transformedCount |-> SuccessCountOf(outcomes),
             loadedCount |-> IF ~IsNull(loadResults)
                             THEN Val(loadResults).successCount ELSE 0,
             errorCount |-> Len(errors),
             errors |-> errors,
             loadResults |-> loadResults])
  /\ pipelineErrors' = errors
  /\ pc' = "Completed"

\* One pass of the extract retry loop
CarelogExtract ==
  /\ pipeline = "carelog" /\ pc = "Extracting"
  /\ retryCount < maxExtractAttempts
  /\ UNCHANGED <<inputs, db, trx, extractedCount, transformedData,
                 transformedCount, load>>
  /\ \E ok \in BOOLEAN :
     /\ ok => SourceConfigOk(source)
     /\ ~ok => (~SourceConfigOk(source) \/ env.flaky)
     /\ IF ok
        THEN /\ rawData' = Some(WithRowIndex(sourceRows))
             /\ pc' = "Transforming"
             /\ hist' = [hist EXCEPT !.attempts = @ + 1, !.extracted = TRUE]
             /\ UNCHANGED <<retryCount, result, pipelineErrors>>
        ELSE /\ retryCount' = retryCount + 1
             /\ UNCHANGED rawData
             /\ IF retryCount + 1 >= maxExtractAttempts
                THEN /\ CarelogCatch("Extract failed after 3 attempts",
                                     pipelineErrors)
                     /\ hist' = [hist EXCEPT !.attempts = @ + 1,
                                             !.exhausted = TRUE]
                ELSE /\ hist' = [hist EXCEPT !.attempts = @ + 1]
                     /\ UNCHANGED <<pc, result, pipelineErrors>>

\* errors.push(`Row ${rowIndex}: ...`) for every failed outcome, in order
TransformErrors(outcomes) ==
  LET failed == SelectSeq(outcomes, LAMBDA o : ~o.success)
  IN  [k \in 1..Len(failed) |->
         [phase |-> "transform", error |-> "Row", row |-> failed[k].rowIndex]]

\* The transform phase and, with validateOnly, the result
CarelogTransform ==
  /\ pipeline = "carelog" /\ pc = "Transforming"
  /\ UNCHANGED <<inputs, db, trx, retryCount, rawData, extractedCount,
                 transformedCount, load>>
  /\ hist' = [hist EXCEPT !.transformRan = TRUE]
  /\ LET outcomes == transformCarelogData(Val(rawData))
         errs == pipelineErrors \o TransformErrors(outcomes)
     IN  /\ transformedData' = outcomes
         /\ IF options.validateOnly
            THEN CarelogReturn(Val(rawData), outcomes, Null, errs)
            ELSE /\ pc' = "Loading"
                 /\ pipelineErrors' = errs
                 /\ UNCHANGED result

\* transformedData.filter(t => t.success && t.data)
ValidData(outcomes) ==
  SelectSeq(outcomes, LAMBDA o : o.success /\ ~IsNull(o.data))

\* loadCarelogData up to the opening of the transaction
CarelogLoadBegin ==
  /\ pipeline = "carelog" /\ pc = "Loading" /\ load.state = "idle"
  /\ UNCHANGED <<inputs, db, retryCount, rawData, extractedCount,
                 transformedData, transformedCount>>
  /\ \E up \in BOOLEAN :
     IF up
     THEN /\ trx' = [state |-> "open", tables |-> db, aborted |-> FALSE]
          /\ load' = [load EXCEPT !.state = "running"]
          /\ hist' = [hist EXCEPT !.loadCalled = TRUE, !.trxOpened = @ + 1]
          /\ UNCHANGED <<pc, result, pipelineErrors>>
     ELSE \* knex.transaction rejects: no transaction is available
          /\ CarelogCatch("Transaction failed", pipelineErrors)
          /\ hist' = [hist EXCEPT !.loadCalled = TRUE, !.loadFatal = TRUE]
          /\ UNCHANGED <<trx, load>>

CarelogFaults == {"timeout", "insert"}

\* String.prototype.includes on the messages the carelog loader can catch
Includes(msg, keyword) ==
  keyword \in
    CASE msg \in {"Caregiver does not exist", "Parent does not exist"}
           -> {"does not exist"}
      [] msg = "Carelog with external_id already exists" -> {"already exists"}
      [] msg \in {"Missing required field: caregiver_id",
                  "Missing required field: start_datetime",
                  "Missing required field: end_datetime"} -> {"Missing required"}
      [] msg = "Insert timeout" -> {"timeout"}
      [] msg = "Database insertion failed" -> {"Database insertion"}
      [] OTHER -> {}

categorizeError(errorMessage) ==
  IF Includes(errorMessage, "does not exist") THEN "Foreign Key Error"
  ELSE IF Includes(errorMessage, "already exists") THEN "Duplicate Error"
  ELSE IF Includes(errorMessage, "Missing required") THEN "Validation Error"
  ELSE IF Includes(errorMessage, "timeout") THEN "Timeout Error"
  ELSE IF Includes(errorMessage, "Database insertion") THEN "Database Error"
  ELSE "Unknown Error"

\* a count that leaves out the errors of no known category
CountErrorKnownOnly(byType, msg) ==
  IF categorizeError(msg) = "Unknown Error" THEN byType
  ELSE [byType EXCEPT ![categorizeError(msg)] = @ + 1]

\* errorsByType[errorType] = (errorsByType[errorType] || 0) + 1
CountError(byType, msg) == [byType EXCEPT ![categorizeError(msg)] = @ + 1]

\* One iteration of the record loop of loadCarelogData
CarelogLoadRecord ==
  /\ pipeline = "carelog" /\ pc = "Loading" /\ load.state = "running"
  /\ load.i < Len(ValidData(transformedData))
  /\ options.batchSize > 0
  /\ UNCHANGED <<inputs, db, retryCount, rawData, extractedCount,
                 transformedData, transformedCount, pc, result,
                 pipelineErrors, hist>>
  /\ \E fault \in FaultChoices(CarelogFaults) :
     LET transform == ValidData(transformedData)[load.i + load.j + 1]
         ins == insertSingleCarelog(Val(transform.data), trx.tables,
                                    trx.aborted, fault)
         pos == load.i + load.j + 1
         timedOut == fault = "timeout"
         error == IF timedOut THEN "Insert timeout" ELSE ins.error
         tables == IF timedOut THEN trx.tables ELSE ins.tables
         aborted == IF timedOut THEN trx.aborted ELSE ins.aborted
         errs == IF error = "none" THEN load.errors
                 ELSE Append(load.errors,
                             [row |-> transform.rowIndex, error |-> error])
         l == [load EXCEPT !.errors = errs,
                           !.errorsByType = IF error = "none" THEN @
                                            ELSE CountError(@, error),
                           !.successCount = IF error = "none" THEN @ + 1 ELSE @,
                           !.pending = IF timedOut THEN Append(@, pos) ELSE @,
                           !.batches = InBatch(@, load.j, pos),
                           !.faults = IF fault = "none" THEN @ ELSE @ + 1]
     IN  /\ trx' = [trx EXCEPT !.tables = tables, !.aborted = aborted]
         /\ load' = Advance(l, Len(ValidData(transformedData)), options.batchSize)

\* One iteration of the record loop of loadCarelogData during which another
\* run of the pipeline loads a carelog with the same external_id: this run's
\* pre-check finds no row, the other run commits its row, this run's INSERT
\* violates the UNIQUE constraint (error code 23505)
CarelogLoadRecordRaced ==
  /\ pipeline = "carelog" /\ pc = "Loading" /\ load.state = "running"
  /\ load.i < Len(ValidData(transformedData))
  /\ options.batchSize > 0
  /\ load.faults < env.faults
  /\ UNCHANGED <<inputs, retryCount, rawData, extractedCount,
                 transformedData, transformedCount, pc, result,
                 pipelineErrors, hist>>
  /\ LET transform == ValidData(transformedData)[load.i + load.j + 1]
         data == Val(transform.data)
         pos == load.i + load.j + 1
         theirs == [id |-> NextId(trx.tables.carelogs),
                    external_id |-> data.external_id,
                    caregiver_id |-> Val(data.caregiver_id),
                    franchisor_id |-> data.franchisor_id,
                    agency_id |-> data.agency_id,
                    parent_id |-> data.parent_id]
         error == "Duplicate carelog record"
         l == [load EXCEPT !.errors = Append(@, [row |-> transform.rowIndex,
                                                 error |-> error]),
                           !.errorsByType = CountError(@, error),
                           !.batches = InBatch(@, load.j, pos),
                           !.faults = @ + 1]
     IN  /\ TruthyStr(data.external_id)
         /\ insertSingleCarelog(data, trx.tables, trx.aborted, "none").error = "none"
         /\ db' = [db EXCEPT !.carelogs = @ \cup {theirs}]
         /\ trx' = [trx EXCEPT !.tables.carelogs = @ \cup {theirs},
                               !.aborted = TRUE]
         /\ load' = Advance(l, Len(ValidData(transformedData)), options.batchSize)

\* An insert that timed out runs to its end while the load goes on
CarelogPendingInsert ==
  /\ pipeline = "carelog" /\ pc = "Loading" /\ load.state = "running"
  /\ \E k \in 1..Len(load.pending) :
     LET transform == ValidData(transformedData)[load.pending[k]]
         ins == insertSingleCarelog(Val(transform.data), trx.tables,
                                    trx.aborted, "none")
     IN  /\ trx' = [trx EXCEPT !.tables = ins.tables, !.aborted = ins.aborted]
         /\ load' = [load EXCEPT !.pending = RemoveAt(@, k)]
  /\ UNCHANGED <<inputs, db, pc, retryCount, rawData, extractedCount,
                 transformedData, transformedCount, pipelineErrors, result, hist>>

\* An iteration of the batch loop whose slice is empty (batchSize 0): i does
\* not advance
CarelogLoadEmptyBatch ==
  /\ pipeline = "carelog" /\ pc = "Loading" /\ load.state = "running"
  /\ load.i < Len(ValidData(transformedData))
  /\ options.batchSize = 0
  /\ load' = [load EXCEPT !.i = @ + options.batchSize]
  /\ UNCHANGED <<inputs, db, trx, retryCount, rawData, extractedCount,
                 transformedData, transformedCount, pc, result,
                 pipelineErrors, hist>>

\* loadResults.errors.forEach(error => errors.push(`Load error row ...`))
LoadErrors(errors) ==
  [k \in 1..Len(errors) |->
     [phase |-> "load", error |-> errors[k].error, row |-> errors[k].row]]

\* The end of the batch loop: commit, the LoadResult and the pipeline result
CarelogLoadFinish ==
  /\ pipeline = "carelog" /\ pc = "Loading" /\ load.state = "running"
  /\ ~(load.i < Len(ValidData(transformedData)))
  /\ UNCHANGED <<inputs, retryCount, rawData, extractedCount, transformedData,
                 transformedCount, hist>>
  /\ db' = IF trx.aborted THEN db ELSE trx.tables
  /\ trx' = [trx EXCEPT !.state = IF trx.aborted THEN "rolledback" ELSE "committed"]
  /\ load' = [load EXCEPT !.state = "returned"]
  /\ CarelogReturn(Val(rawData), transformedData,
                   Some([totalProcessed |-> Len(ValidData(transformedData)),
                         successCount |-> load.successCount,
                         errorCount |-> Len(load.errors),
                         errors |-> load.errors]),
                   pipelineErrors \o LoadErrors(load.errors))

\* the LoadResult of the finished run, when it has one
LoadResultOf(r) ==
  IF pipeline = "caregiver" THEN r.loadResult ELSE r.loadResults

\* The caller runs the pipeline again on the same source with the same
\* options: the locals of runETLPipeline start afresh, the tables stay
Rerun ==
  /\ pc \in {"Completed", "Failed"}
  /\ hist.run < MaxRuns
  /\ UNCHANGED <<inputs, db>>
  /\ trx' = [state |-> "none", tables |-> db, aborted |-> FALSE]
  /\ pc' = "Extracting"
  /\ retryCount' = 0
  /\ rawData' = IF pipeline = "caregiver" THEN Null ELSE Some(<<>>)
  /\ extractedCount' = 0
  /\ transformedData' = <<>>
  /\ transformedCount' = 0
  /\ pipelineErrors' = <<>>
  /\ load' = [IdleLoad EXCEPT !.faults = load.faults]
  /\ result' = Null
  /\ hist' = NewHist(hist.run + 1, db,
                     IF IsNull(LoadResultOf(Val(result))) THEN Null
                     ELSE Some([successCount |->
                                  Val(LoadResultOf(Val(result))).successCount,
                                errorCount |->
                                  Val(LoadResultOf(Val(result))).errorCount]))

Next ==
  \/ CaregiverExtract
  \/ CaregiverTransform
  \/ CaregiverLoadBegin
  \/ CaregiverLoadRecord
  \/ CaregiverPendingInsert
  \/ CaregiverLoadFinish
  \/ CarelogExtract
  \/ CarelogTransform
  \/ CarelogLoadBegin
  \/ CarelogLoadRecord
  \/ CarelogPendingInsert
  \/ CarelogLoadEmptyBatch
  \/ CarelogLoadFinish

Spec == Init /\ [][Next]_vars

\* A run keeps taking steps while it has one to take: every awaited extract
\* attempt and insert is assumed to settle
LiveInit ==
  /\ pipeline \in {"caregiver", "carelog"}
  /\ source \in Sources
  /\ options \in [batchSize : {0, 1, 2}, validateOnly : {FALSE},
                   continueOnError : {TRUE}, maxRetries : RetryOptions]
  /\ sourceRows \in RowSeqs(IF pipeline = "caregiver"
                             THEN {CgRow(Some(<<"A">>), Some(<<"L">>), Some(Str1))}
                             ELSE {ClRow(Some(Str1), Some(Str1), Some(Str2)),
                                   ClRow(Some(<<>>), Some(Str1), Some(Str2))})
  /\ env = [flaky |-> TRUE, faults |-> MaxFaults]
  /\ Entry

LiveSpec == LiveInit /\ [][Next]_vars /\ WF_vars(Next)

\* Repeated runs over one source: well-configured sources, batch sizes in
\* range, an extractor and a database that do not fail
RerunInit ==
  /\ pipeline \in {"caregiver", "carelog"}
  /\ source = [type |-> "csv", given |-> TRUE]
  /\ options \in [batchSize : {1, 2}, validateOnly : {FALSE},
                   continueOnError : BOOLEAN, maxRetries : {0}]
  /\ pipeline = "carelog" => options.continueOnError
  /\ sourceRows \in RowSeqs(IF pipeline = "caregiver"
                             THEN CaregiverRows \cup KeyedCaregiverRows
                             ELSE CarelogRows \cup KeyedCarelogRows)
  /\ env = [flaky |-> FALSE, faults |-> 0]
  /\ Entry

RerunNext ==
  \/ CaregiverExtract
  \/ CaregiverTransform
  \/ CaregiverLoadBegin
  \/ CaregiverLoadRecord
  \/ CaregiverLoadFinish
  \/ CarelogExtract
  \/ CarelogTransform
  \/ CarelogLoadBegin
  \/ CarelogLoadRecord
  \/ CarelogLoadFinish
  \/ Rerun

RerunSpec == RerunInit /\ [][RerunNext]_vars

\* Validation runs of the carelog pipeline over rows of every kind
TransformInit ==
  /\ pipeline = "carelog"
  /\ source = [type |-> "csv", given |-> TRUE]
  /\ options = [batchSize |-> 1, validateOnly |-> TRUE,
                continueOnError |-> TRUE, maxRetries |-> 0]
  /\ sourceRows \in RowSeqs(CarelogRows \cup RuleCarelogRows)
  /\ env = [flaky |-> FALSE, faults |-> 0]
  /\ Entry

TransformNext ==
  \/ CarelogExtract
  \/ CarelogTransform

TransformSpec == TransformInit /\ [][TransformNext]_vars

\* Caregiver loads of rows that all transform, with and without external
\* ids, over a database that can fail a statement or be slow
CaregiverLoadInit ==
  /\ pipeline = "caregiver"
  /\ source = [type |-> "csv", given |-> TRUE]
  /\ options \in [batchSize : {1, 2}, validateOnly : {FALSE},
                   continueOnError : {TRUE}, maxRetries : {0}]
  /\ sourceRows \in RowSeqs({CgRow(Some(<<"A">>), Some(<<"L">>), Some(Str1)),
                              CgRow(Some(<<"A">>), Some(<<"L">>), Some(Str9))}
                             \cup KeyedCaregiverRows)
  /\ env = [flaky |-> FALSE, faults |-> MaxFaults]
  /\ Entry

CaregiverLoadNext ==
  \/ CaregiverExtract
  \/ CaregiverTransform
  \/ CaregiverLoadBegin
  \/ CaregiverLoadRecord
  \/ CaregiverPendingInsert
  \/ CaregiverLoadFinish

CaregiverLoadSpec == CaregiverLoadInit /\ [][CaregiverLoadNext]_vars

\* Carelog loads of rows with and without an external_id while other runs
\* of the pipeline load the same external_ids
RaceInit ==
  /\ pipeline = "carelog"
  /\ source = [type |-> "csv", given |-> TRUE]
  /\ options \in [batchSize : {1, 2}, validateOnly : {FALSE},
                   continueOnError : {TRUE}, maxRetries : {0}]
  /\ sourceRows \in RowSeqs({ClRow(Some(Str1), Some(Str1), Some(Str2)),
                              ClRow(Some(Str9), Some(Str1), Some(Str2))}
                             \cup KeyedCarelogRows)
  /\ env = [flaky |-> FALSE, faults |-> MaxFaults]
  /\ Entry

RaceNext ==
  \/ CarelogExtract
  \/ CarelogTransform
  \/ CarelogLoadBegin
  \/ CarelogLoadRecord
  \/ CarelogLoadRecordRaced
  \/ CarelogPendingInsert
  \/ CarelogLoadFinish

RaceSpec == RaceInit /\ [][RaceNext]_vars

\* ------------------------------------------------------------------ claims
Returned == ~IsNull(result)

\* the rows of the extract that transform without error, row by row
GoodRowCount ==
  IF IsNull(rawData) THEN 0
  ELSE IF pipeline = "caregiver"
  THEN Cardinality({k \in 1..Len(Val(rawData)) : CaregiverRowOk(Val(rawData), k)})
  ELSE Cardinality({k \in 1..Len(Val(rawData)) :
                      TransformCarelogRow(Val(rawData)[k], k - 1).success})

\* the loadedCount a caller reads off the result
LoadedCount ==
  IF pipeline = "carelog" THEN Val(result).loadedCount
  ELSE IF IsNull(Val(result).loadResult) THEN 0
  ELSE Val(Val(result).loadResult).successCount

HasPipelineError ==
  \E k \in 1..Len(Val(result).errors) : Val(result).errors[k].phase = "pipeline"

\* the records the running load has processed so far
Processed == Len(load.errors) + load.successCount

\* options inside their documented ranges
ValidOptions == options.batchSize \in 1..MaxBatchSize /\ options.maxRetries >= 0

\* C1: for every list of raw records the transform of both entity streams
\* returns without throwing and yields one outcome per input row: the
\* output is as long as the input.
C1_TransformOneOutcomePerRow ==
  hist.transformRan =>
    IF pipeline = "caregiver"
    THEN /\ ~transformCaregiverData(Val(rawData)).threw
         /\ Len(transformCaregiverData(Val(rawData)).data) = Len(Val(rawData))
    ELSE Len(transformCarelogData(Val(rawData))) = Len(Val(rawData))

\* C2: in a full run a row that fails transformation never aborts the run:
\* every other row that transforms is counted in transformedCount and handed
\* to the load phase, and the failure is only recorded in the error list.
C2_TransformFailureIsPerRow ==
  (Returned /\ hist.transformRan /\ options.continueOnError /\ ValidOptions) =>
    /\ Val(result).transformedCount = GoodRowCount
    /\ (~options.validateOnly /\ GoodRowCount > 0) => hist.loadCalled
    /\ pc = "Completed"

\* C3: during a load a per-record error is appended to the error list and
\* processing continues with the next record: a bad record never aborts the
\* batch or the transaction, and the load goes through every record and
\* commits (here: even when no statement fails in the database and no insert
\* times out).
C3_RecordErrorNeverAbortsLoad ==
  (ValidOptions /\ load.faults = 0) =>
    /\ ~hist.breaker
    /\ (Returned /\ hist.trxOpened > 0) =>
         /\ load.state = "returned"
         /\ trx.state = "committed"

\* C4: in any load, as soon as the errors exceed 50% of the records processed
\* so far the load aborts and processes no further record; while they are at
\* most 50% of the records processed so far it does not abort.
C4_BreakerOnProcessedSoFar ==
  (ValidOptions /\ load.faults = 0) =>
    /\ load.state \in {"running", "returned"} => 2 * Len(load.errors) <= Processed
    /\ hist.breaker => 2 * Len(load.errors) > Processed

\* C5: whenever the loader aborts fatally (circuit breaker, or no transaction
\* available) the run reports success = false and its error list holds an
\* entry tagged pipeline, under default options.
C5_FatalLoadFailsRun ==
  (/\ Returned /\ hist.loadFatal
   /\ options.continueOnError /\ ~options.validateOnly /\ ValidOptions) =>
    /\ ~Val(result).success
    /\ HasPipelineError

\* C6: the success flag is true whenever extraction and transformation
\* finished without a phase-fatal error, even if some or all records failed
\* in transform or load; it is false only when the extract retries are
\* exhausted or the load aborts fatally.
C6_SuccessUnlessPhaseFatal ==
  (Returned /\ ValidOptions) =>
    (Val(result).success <=>
       ~(hist.exhausted \/ hist.loadFatal \/ ~hist.extracted))

\* C7: with validateOnly a run opens no transaction, leaves every destination
\* table unchanged, reports loadedCount = 0 and no LoadResult, and
\* transformedCount is the number of rows that transformed successfully.
C7_ValidateOnlyWritesNothing ==
  (Returned /\ options.validateOnly /\ options.continueOnError /\ ValidOptions) =>
    /\ hist.trxOpened = 0 /\ ~hist.loadCalled
    /\ db = hist.db0
    /\ LoadedCount = 0
    /\ Val(result).transformedCount = GoodRowCount

\* C8: the extract phase makes at most maxRetries + 1 attempts, for every
\* caller-supplied maxRetries and in both pipelines, and none after the
\* first success.
C8_AtMostMaxRetriesPlusOneAttempts ==
  /\ options.maxRetries >= 0 => hist.attempts <= options.maxRetries + 1
  /\ hist.extracted => pc # "Extracting"

\* C9: if every extract attempt fails (retries exhausted) the run is failed
\* and the transform and load phases never start: transformedCount and
\* loadedCount are 0 and no destination row is written.
C9_ExhaustedExtractFailsRun ==
  hist.exhausted =>
    /\ Returned /\ pc = "Failed"
    /\ ~Val(result).success
    /\ ~hist.transformRan /\ ~hist.loadCalled /\ hist.trxOpened = 0
    /\ Val(result).transformedCount = 0
    /\ LoadedCount = 0
    /\ db = hist.db0

\* a run whose second extract attempt exhausted the retries and has failed
C9_Witness ==
  /\ hist.exhausted /\ hist.attempts >= 2 /\ pc = "Failed"
  /\ Len(sourceRows) > 0 /\ ~options.validateOnly

\* C10: if extraction yields zero records the run completes successfully with
\* all counts zero and neither transform nor load is executed (no
\* transaction is opened), in both pipelines.
C10_EmptyExtractCompletesAtOnce ==
  (Returned /\ hist.extracted /\ Len(sourceRows) = 0 /\ ValidOptions) =>
    /\ Val(result).success
    /\ Val(result).extractedCount = 0
    /\ Val(result).transformedCount = 0
    /\ LoadedCount = 0
    /\ ~hist.loadCalled /\ hist.trxOpened = 0

\* the run has ended
Terminal == pc \in {"Completed", "Failed"}

\* the run ended by throwing to its caller: it ended and left no result object
Thrown == Terminal /\ IsNull(result)

\* the source misses its path/url/query or has an unknown type, or the load
\* was called with a batch size outside [1, 1000]
ConfigError ==
  \/ ~SourceConfigOk(source)
  \/ hist.loadCalled /\ options.batchSize \notin 1..MaxBatchSize

\* C11: a run hands its caller a result object for every per-record and load
\* failure and throws to the caller in exactly two cases: a configuration
\* error and the exhaustion of the extract retries.
C11_ThrowsOnlyOnConfigOrExhaustion ==
  (Terminal /\ options.maxRetries >= 0) =>
    (Thrown <=> (hist.exhausted \/ ConfigError))

\* C12: a batchSize outside [1, 1000] is rejected as a configuration error
\* before any I/O by both loaders: the load fails, no transaction is opened
\* and no existence check or insert is issued.
C12_BatchSizeRejectedBeforeIO ==
  (/\ hist.loadCalled /\ options.batchSize \notin 1..MaxBatchSize
   /\ options.maxRetries >= 0) =>
    /\ hist.loadFatal
    /\ hist.trxOpened = 0
    /\ load.state = "idle"

\* the records handed to the running load, and the record of a source row
LoadRecords ==
  IF pipeline = "caregiver" THEN transformedData
  ELSE [k \in 1..Len(ValidData(transformedData)) |->
          Val(ValidData(transformedData)[k].data)]

LoadRowOf(k) ==
  IF pipeline = "caregiver" THEN transformedData[k].source_row
  ELSE ValidData(transformedData)[k].rowIndex

RecordOfRow(row) ==
  LoadRecords[CHOOSE k \in 1..Len(LoadRecords) : LoadRowOf(k) = row]

\* every id the record references is a row of its own target table
RefsExist(record, t) ==
  IF pipeline = "caregiver"
  THEN /\ IsNull(record.franchisor_id) \/ Val(record.franchisor_id) \in t.franchisors
       /\ IsNull(record.agency_id) \/ Val(record.agency_id) \in t.agencies
       /\ IsNull(record.location_id) \/ Val(record.location_id) \in t.locations
  ELSE /\ Val(record.caregiver_id) \in Ids(t.caregivers)
       /\ IsNull(record.franchisor_id) \/ Val(record.franchisor_id) \in t.franchisors
       /\ IsNull(record.agency_id) \/ Val(record.agency_id) \in t.agencies
       /\ IsNull(record.parent_id) \/ Val(record.parent_id) \in t.parent

\* every id a stored carelog row references is a row of its target table
StoredRefsExist(c, t) ==
  /\ c.caregiver_id \in Ids(t.caregivers)
  /\ IsNull(c.franchisor_id) \/ Val(c.franchisor_id) \in t.franchisors
  /\ IsNull(c.agency_id) \/ Val(c.agency_id) \in t.agencies
  /\ IsNull(c.parent_id) \/ Val(c.parent_id) \in t.parent

\* the messages of the existence checks and of a foreign-key violation
ForeignKeyErrors ==
  {"Franchisor does not exist", "Agency does not exist",
   "Location does not exist", "Caregiver does not exist",
   "Parent does not exist", "Invalid foreign key reference"}

\* C13: no record is inserted unless every foreign key it references exists
\* in its own target table; a record referencing a missing id yields a
\* per-record foreign-key error, and a record whose references all exist is
\* not rejected by the check.
C13_ForeignKeysCheckedInOwnTable ==
  /\ \A c \in trx.tables.carelogs : StoredRefsExist(c, trx.tables)
  /\ \A k \in 1..Len(load.errors) :
       load.errors[k].error \in ForeignKeyErrors
         <=> ~RefsExist(RecordOfRow(load.errors[k].row), hist.db0)

\* the stored carelog rows that carry an external_id
KeyedCarelogs(t) == {c \in t.carelogs : ~IsNull(c.external_id)}

\* the records of the load that carry an external_id
KeyedRecords ==
  {k \in 1..Len(LoadRecords) : ~IsNull(LoadRecords[k].external_id)}

\* the per-record errors of the load with this message
ErrorsWith(msg) == {k \in 1..Len(load.errors) : load.errors[k].error = msg}

NewRowCount ==
  IF pipeline = "caregiver"
  THEN Cardinality(db.caregivers) - Cardinality(hist.db0.caregivers)
  ELSE Cardinality(db.carelogs) - Cardinality(hist.db0.carelogs)

\* every row of the source carries an external_id
AllKeyed == \A k \in 1..Len(sourceRows) : ~IsNull(sourceRows[k].external_id)

\* C15: running the pipeline again on the same source is idempotent on the
\* destination: the second run inserts no new row for a record the first run
\* inserted, reports each such record as a per-record error without failing,
\* and otherwise repeats the first run's successCount/errorCount (here: for
\* sources whose rows all carry an external_id).
C15_SecondRunIsIdempotent ==
  (/\ hist.run = 2 /\ Returned /\ hist.trxOpened > 0 /\ AllKeyed
   /\ ~IsNull(hist.prev) /\ Val(hist.prev).successCount > 0) =>
    /\ db = hist.db0
    /\ pc = "Completed"
    /\ ~IsNull(LoadResultOf(Val(result)))
    /\ Val(LoadResultOf(Val(result))).successCount = 0
    /\ Val(LoadResultOf(Val(result))).errorCount
         = Val(hist.prev).successCount + Val(hist.prev).errorCount

\* C16: all batches of one load share one transaction: when the load aborts
\* fatally no row it wrote remains, and when it returns normally the rows of
\* all its successful records are committed together.
C16_LoadIsOneTransaction ==
  /\ hist.loadFatal => db = hist.db0
  /\ (Returned /\ load.state = "returned") => NewRowCount = load.successCount

\* the partition of positions 1..n into batches of b, the last one shorter
ExpectedBatches(n, b) ==
  [k \in 1..((n + b - 1) \div b) |->
     [m \in 1..(IF k * b <= n THEN b ELSE n - (k - 1) * b) |-> (k - 1) * b + m]]

\* the insert of the running pipeline
InsertSingle(record, t, aborted) ==
  IF pipeline = "caregiver" THEN insertSingleCaregiver(record, t, aborted, "none")
  ELSE insertSingleCarelog(record, t, aborted, "none")

\* the successes of inserting records k.. one after the other, no batches
RECURSIVE SuccessesFrom(_, _, _)
SuccessesFrom(k, t, aborted) ==
  IF k > Len(LoadRecords) THEN 0
  ELSE LET ins == InsertSingle(LoadRecords[k], t, aborted)
       IN  (IF ins.error = "none" THEN 1 ELSE 0)
           + SuccessesFrom(k + 1, ins.tables, ins.aborted)

\* C17: for n records and a batch size b in [1, 1000] the loader processes
\* ceil(n/b) batches, each of b records except a possibly shorter last one,
\* in input order; LoadResult.totalProcessed = n whatever b is, and
\* successCount and errorCount do not depend on b.
C17_BatchesPartitionTheLoad ==
  (ValidOptions /\ Returned /\ load.state = "returned") =>
    LET n == Len(LoadRecords)
        r == Val(LoadResultOf(Val(result)))
    IN  /\ load.batches = ExpectedBatches(n, options.batchSize)
        /\ r.totalProcessed = n
        /\ r.successCount + r.errorCount = n
        /\ load.faults = 0 => r.successCount = SuccessesFrom(1, hist.db0, FALSE)

\* a load of three records in batches of two has returned
C17_Witness ==
  /\ Returned /\ load.state = "returned" /\ options.batchSize = 2
  /\ Len(LoadRecords) = 3
  /\ load.batches = <<<<1, 2>>, <<3>>>>
  /\ load.errors # <<>>

\* what a raw field says: an integer other than 0, a date
IntOf(x) ==
  IF IsNull(x) \/ Val(x) = <<>> THEN Null
  ELSE IF ParseIntJS(Trim(Val(x))) \in {Null, Some(0)} THEN Null
  ELSE ParseIntJS(Trim(Val(x)))

DateOf(x) == IF IsNull(x) THEN Null ELSE DateJS(Trim(Val(x)))

\* the raw row misses a required field or violates a business rule
BadRow(row) ==
  \/ IsNull(IntOf(row.caregiver_id))
  \/ IsNull(DateOf(row.start_datetime))
  \/ IsNull(DateOf(row.end_datetime))
  \/ Val(DateOf(row.start_datetime)) >= Val(DateOf(row.end_datetime))
  \/ /\ ~IsNull(DateOf(row.clock_in_actual_datetime))
     /\ ~IsNull(DateOf(row.clock_out_actual_datetime))
     /\ Val(DateOf(row.clock_in_actual_datetime))
          >= Val(DateOf(row.clock_out_actual_datetime))
  \/ /\ ~IsNull(IntOf(row.general_comment_char_count))
     /\ Val(IntOf(row.general_comment_char_count)) < 0

\* the positions of the failed outcomes, ascending
RECURSIVE FailedRows(_, _)
FailedRows(outcomes, k) ==
  IF k > Len(outcomes) THEN <<>>
  ELSE (IF outcomes[k].success THEN <<>> ELSE <<k>>) \o FailedRows(outcomes, k + 1)

C19_SuccessSatisfiesInvariants ==
  (pipeline = "carelog" /\ hist.transformRan) =>
    \A k \in 1..Len(transformedData) :
      transformedData[k].success =>
        LET d == Val(transformedData[k].data)
        IN  /\ ~IsNull(d.caregiver_id)
            /\ ~IsNull(d.start_datetime) /\ ~IsNull(d.end_datetime)
            /\ Val(d.start_datetime) < Val(d.end_datetime)
            /\ (/\ ~IsNull(d.clock_in_actual_datetime)
                /\ ~IsNull(d.clock_out_actual_datetime)) =>
                 Val(d.clock_in_actual_datetime) < Val(d.clock_out_actual_datetime)
            /\ d.general_comment_char_count >= 0

\* a row with ordered clock times has succeeded next to rows with reversed
\* clock times and a negative comment count, which have failed
C19_Witness ==
  /\ pipeline = "carelog" /\ hist.transformRan /\ Len(transformedData) = 3
  /\ transformedData[1].success
  /\ ~IsNull(Val(transformedData[1].data).clock_in_actual_datetime)
  /\ ~transformedData[2].success
  /\ sourceRows[2].clock_in_actual_datetime = Some(Str2)
  /\ ~transformedData[3].success
  /\ sourceRows[3].general_comment_char_count = Some(<<"-", "3">>)

\* the step of a run from one phase into the next one
PhaseStep ==
  /\ pc = "Extracting" =>
       \/ pc' \in {"Extracting", "Failed"}
       \/ /\ pc' = "Transforming"
          /\ hist'.extracted /\ ~IsNull(rawData')
          /\ Len(Val(rawData')) = Len(sourceRows)
       \/ pc' = "Completed" /\ hist'.extracted /\ Len(sourceRows) = 0
  /\ pc = "Transforming" =>
       /\ hist.extracted /\ rawData' = rawData
       /\ \/ pc' = "Failed"
          \/ /\ pc' = "Loading" /\ ~options.validateOnly
             /\ hist'.transformRan /\ ~hist'.loadCalled
          \/ /\ pc' = "Completed" /\ hist'.transformRan
             /\ options.validateOnly \/ transformedCount' = 0
  /\ pc = "Loading" =>
       /\ hist.transformRan /\ ~options.validateOnly
       /\ pc' \in {"Loading", "Completed", "Failed"}
       /\ <<rawData', transformedData'>> = <<rawData, transformedData>>
  /\ pc # "Loading" => <<db', trx', load'>> = <<db, trx, load>>
  /\ pc \in {"Completed", "Failed"} => UNCHANGED vars

\* C20: a run moves only from Extracting to Transforming to Loading (never
\* Loading when validateOnly) to Completed, or into Failed; the transform
\* starts only once the extract has delivered all rows, the load only once
\* the transform has run, and nothing changes after Completed or Failed.
C20_PhasesRunInOrder == [][PhaseStep]_vars

\* a run has gone through the extract, transform and load phases to Completed
C20_Witness ==
  /\ pc = "Completed" /\ hist.extracted /\ hist.transformRan /\ hist.loadCalled
  /\ load.state = "returned" /\ load.successCount > 0 /\ ~IsNull(result)

\* C21: a source descriptor that lacks its required field or has an
\* unsupported type fails fast: no extract is issued for it and it is never
\* retried, so the run makes exactly one failed attempt.
C21_ConfigErrorFailsFast ==
  (~SourceConfigOk(source) /\ ValidOptions) =>
    /\ ~hist.extracted
    /\ hist.attempts <= 1
    /\ Terminal => hist.attempts = 1

\* C22: when the outcomes passed to a load contain no Success the load
\* returns a zero-valued LoadResult at once, without opening a transaction,
\* in both loaders.
C22_EmptyLoadOpensNoTransaction ==
  (hist.loadCalled /\ Len(LoadRecords) = 0 /\ ValidOptions) =>
    /\ hist.trxOpened = 0
    /\ ~hist.loadFatal
    /\ Returned =>
         /\ ~IsNull(LoadResultOf(Val(result)))
         /\ Val(LoadResultOf(Val(result)))
              = [totalProcessed |-> 0, successCount |-> 0, errorCount |-> 0,
                 errors |-> <<>>]

\* the profile and external rows the run has added to the tables t that no
\* caregivers row of t references
OrphanProfiles(t) ==
  {p \in t.profile \ hist.db0.profile :
     ~\E c \in t.caregivers : c.profile_id = Some(p.id)}

OrphanExternals(t) ==
  {e \in t.external \ hist.db0.external :
     ~\E c \in t.caregivers : c.external_id = Some(e.id)}

\* no insert of the load has timed out
NoTimeout ==
  ErrorsWith("Insert operation timed out") = {} /\ ErrorsWith("Insert timeout") = {}

C24_ExternalReusedOnExactMatch ==
  pipeline = "caregiver" =>
    /\ \A t \in {db, trx.tables} : \A e1, e2 \in t.external :
         (e1.external_id = e2.external_id /\ e1.system_name = e2.system_name)
           => e1 = e2
    /\ \A c \in db.caregivers \ hist.db0.caregivers :
         /\ \E p \in db.profile \ hist.db0.profile : c.profile_id = Some(p.id)
         /\ IsNull(c.external_id) \/ Val(c.external_id) \in Ids(db.external)
    \* while the database fails no statement, no external write fails
    /\ load.faults = 0 => ErrorsWith("Failed to insert external record") = {}

\* the record loop starts the insert of a record: the record joins a batch
InsertStarts == pc = "Loading" /\ load'.batches # load.batches

\* the position of the record whose insert starts
StartedPosition ==
  LET b == load'.batches IN b[Len(b)][Len(b[Len(b)])]

\* C25: within a load the records are processed one at a time in input
\* order: the insert of a record starts only when no other insert is in
\* progress on the transaction, also after a timeout has fired, and it is
\* the insert of the record after the last one processed.
C25_OneInsertAtATime ==
  [][InsertStarts => /\ load.pending = <<>>
                     /\ StartedPosition = Processed + 1]_vars

\* the per-record errors of the load that report a timeout
TimeoutErrors ==
  ErrorsWith("Insert timeout") \cup ErrorsWith("Insert operation timed out")

\* the only errors of the run are those timeouts
OnlyTimeouts ==
  /\ TimeoutErrors # {}
  /\ Cardinality(TimeoutErrors) = Len(load.errors)
  /\ \A k \in 1..Len(pipelineErrors) : pipelineErrors[k].phase \in {"load", "pipeline"}

\* C26: an insert that outlasts the per-record timeout is recorded as one
\* per-record Timeout error with the record's row index (carelog: counted
\* under the Timeout category), the load goes on with the next record, and
\* the timeout alone fails neither the load nor the run (here: as long as the
\* loader's circuit breaker has not tripped).
C26_TimeoutIsPerRecord ==
  (ValidOptions /\ options.continueOnError /\ OnlyTimeouts /\ ~hist.breaker) =>
    /\ \A k \in TimeoutErrors :
         /\ \E m \in 1..Len(LoadRecords) : load.errors[k].row = LoadRowOf(m)
         /\ \A m \in TimeoutErrors : load.errors[m].row = load.errors[k].row => m = k
    /\ pipeline = "carelog" =>
         load.errorsByType["Timeout Error"] = Cardinality(TimeoutErrors)
    /\ ~hist.loadFatal /\ load.state # "threw"
    /\ load.state = "returned" => Processed = Len(LoadRecords)
    /\ Returned => Val(result).success /\ pc = "Completed"

\* the per-record errors of a lost race for an external_id
RaceErrors == ErrorsWith("Duplicate carelog record")

\* C27: when two runs load a carelog with the same external_id at the same
\* time, both may pass the pre-check, but at most one row with that
\* external_id is ever committed, and the losing run records a per-record
\* error in the Duplicate category for the record instead of failing as a
\* whole: the records it reports as loaded are stored.
C27_RaceLoserGetsDuplicateError ==
  (pipeline = "carelog" /\ RaceErrors # {}) =>
    /\ \A c1, c2 \in KeyedCarelogs(db) : c1.external_id = c2.external_id => c1 = c2
    /\ load.errorsByType["Duplicate Error"]
         = Cardinality(RaceErrors)
           + Cardinality(ErrorsWith("Carelog with external_id already exists"))
    /\ ~hist.loadFatal
    /\ load.state = "returned" =>
         Cardinality(db.carelogs) - Cardinality(hist.db0.carelogs)
           = load.successCount + Cardinality(RaceErrors)

\* C28: a record that the load reports as a Timeout error leaves no row in
\* the destination: after a committed load in which inserts timed out, the
\* rows the load has stored are exactly those of the records counted in
\* successCount.
C28_TimedOutInsertWritesNothing ==
  (load.state = "returned" /\ trx.state = "committed" /\ TimeoutErrors # {}) =>
    /\ NewRowCount = load.successCount
    /\ pipeline = "caregiver" =>
         OrphanProfiles(db) = {} /\ OrphanExternals(db) = {}

\* C29: every run ends in Completed or Failed, whatever the batchSize
\* (0 included) and maxRetries, provided each extract attempt and each insert
\* terminates.
C29_EveryRunTerminates == <>(pc \in {"Completed", "Failed"})

\* the sum of the counts of summary.errorsByType
ErrorsByTypeTotal(byType) ==
  byType["Foreign Key Error"] + byType["Duplicate Error"]
    + byType["Validation Error"] + byType["Timeout Error"]
    + byType["Database Error"] + byType["Unknown Error"]

\* loadedCount of the pipeline result (the caregiver result carries it as
\* loadResult.successCount)
LoadedCountOf(r) ==
  IF pipeline = "carelog" THEN r.loadedCount
  ELSE IF IsNull(r.loadResult) THEN 0 ELSE Val(r.loadResult).successCount

\* C30: every LoadResult a load returns has totalProcessed = successCount +
\* errorCount, errorCount = the length of the error list, and the error list
\* in processing order (rows ascending); in the carelog loader the counts of
\* errorsByType sum to the number of errors at every point of the load; and
\* in every pipeline result loadedCount <= transformedCount <= extractedCount.
C30_LoadResultIsConsistent ==
  /\ pipeline = "carelog" =>
       ErrorsByTypeTotal(load.errorsByType) = Len(load.errors)
  /\ Returned =>
       /\ LoadedCountOf(Val(result)) <= Val(result).transformedCount
       /\ Val(result).transformedCount <= Val(result).extractedCount
       /\ ~IsNull(LoadResultOf(Val(result))) =>
            LET r == Val(LoadResultOf(Val(result)))
            IN  /\ r.totalProcessed = r.successCount + r.errorCount
                /\ r.errorCount = Len(r.errors)
                /\ \A j, k \in 1..Len(r.errors) :
                     j < k => r.errors[j].row < r.errors[k].row
                /\ pipeline = "carelog" =>
                     ErrorsByTypeTotal(load.errorsByType) = r.errorCount

\* a carelog load of three records has returned one success and two errors
\* of different categories, one of them of no known category
C30_Witness ==
  /\ pipeline = "carelog" /\ Returned /\ load.state = "returned"
  /\ ~IsNull(LoadResultOf(Val(result)))
  /\ Val(LoadResultOf(Val(result))).totalProcessed = 3
  /\ Val(LoadResultOf(Val(result))).successCount = 1
  /\ Val(LoadResultOf(Val(result))).errorCount = 2
  /\ load.errorsByType["Unknown Error"] = 1
  /\ Val(result).loadedCount = 1 /\ Val(result).extractedCount = 3

====
